---- MODULE Spec2Model ----
(***************************************************************************)
(* Model of the phenix scale app's plugin core:                            *)
(*   - BuiltinConfig / BuiltinV1 / BuiltinV2   (plugins/builtin.py)        *)
(*   - PluginRegistry                          (registry.py)               *)
(* Python values that the code coerces (int(...) of a profile value) are   *)
(* modelled as tagged values so that the coercion is computed.             *)
(***************************************************************************)
EXTENDS Integers, Sequences, FiniteSets, TLC

VARIABLES
    handed,     \* the profile the orchestrator holds for this instance (NoProfile: any)
    cls,        \* the class of the strategy instance ("BuiltinV1" / "BuiltinV2")
    config,     \* self.config of the strategy instance (NoConfig: attribute not set)
    applied,    \* history: the profile of the most recent successful pre_* call, the
                \* method that applied it, and the pre_* methods run on this instance
    lastCall,   \* the last method call on the instance and what it returned
    plugins,    \* PluginRegistry._plugins: name -> version -> class
    regCall,    \* the last call on the registry and its outcome
    env,        \* discovery: what loading each source of a name does
    discovered, \* discovery: the plugin references of the last discovery run
    attempts,   \* discovery: per reference of that run, the loads attempted in order
    wtConfig,   \* extended strategy: the config stored on the instance
    details,    \* extended strategy: the last _get_container_details call and its result
    hist        \* history: per (name, version) the class of the latest registration,
                \* and whether a registration has replaced an entry by another class

instvars == <<cls, config, applied, lastCall>>
regvars == <<plugins, regCall, hist>>
discvars == <<env, discovered, attempts>>
wtvars == <<wtConfig, details>>
vars == <<handed, cls, config, applied, lastCall, plugins, regCall,
          env, discovered, attempts, wtConfig, details, hist>>

----------------------------------------------------------------------------
(* Bounds *)

\* integers of the profile handed to one instance range over -MaxNeg..MaxVal
MaxVal == 5
MaxNeg == 1
\* integers of the profiles applied one after another range over 0..MaxSmall
MaxSmall == 2
\* the version strings in use are the first MaxVersions of VersionList
MaxVersions == 3
\* a discovery run goes over 1..MaxProfiles plugin references
MaxProfiles == 2
\* the extended strategy is configured with 1..MaxNodes nodes
MaxNodes == 3
\* indices passed to get_hostname / get_container_count range over 0..MaxIndex
\* (over 0..MaxSmall + 1 where profiles are applied one after another)
MaxIndex == 6

----------------------------------------------------------------------------
(* Python values found in a profile *)

Absent == [k |-> "absent", n |-> 0, s |-> <<>>]
PyInt(i) == [k |-> "int", n |-> i, s |-> <<>>]
PyStr(t) == [k |-> "str", n |-> 0, s |-> t]

Digits == {"0", "1", "2", "3", "4", "5", "6", "7", "8", "9"}

DigitVal(c) ==
    CASE c = "0" -> 0 [] c = "1" -> 1 [] c = "2" -> 2 [] c = "3" -> 3
      [] c = "4" -> 4 [] c = "5" -> 5 [] c = "6" -> 6 [] c = "7" -> 7
      [] c = "8" -> 8 [] c = "9" -> 9

RECURSIVE ParseDigits(_, _)
\* int("d1 d2 ... dk"): base-10 accumulation, left to right
ParseDigits(t, acc) ==
    IF t = <<>> THEN acc
    ELSE ParseDigits(Tail(t), 10 * acc + DigitVal(Head(t)))

\* int(x) for an int or a decimal string with an optional sign
int(x) ==
    IF x.k = "int" THEN x.n
    ELSE IF Head(x.s) = "-" THEN 0 - ParseDigits(Tail(x.s), 0)
    ELSE IF Head(x.s) = "+" THEN ParseDigits(Tail(x.s), 0)
    ELSE ParseDigits(x.s, 0)

\* str(x) for a str is x itself
str(x) == x.s

\* kwargs.get(key, default)
Get(kw, key, default) == IF kw[key] = Absent THEN default ELSE kw[key]

IntInputs == {PyInt(i) : i \in (0 - MaxNeg)..MaxVal}
StrInputs == {PyStr(<<"3">>), PyStr(<<"-", "1">>), PyStr(<<"1", "2">>), PyStr(<<"+", "0">>)}
NumInputs == {Absent} \cup IntInputs \cup StrInputs
PrefixInputs == {Absent, PyStr(<<"w", "e", "b">>)}

Profiles ==
    [count : NumInputs, containers : NumInputs,
     containers_per_node : NumInputs, hostname_prefix : PrefixInputs]

SmallInputs == {PyStr(<<"-", "1">>)} \cup {PyInt(i) : i \in 0..MaxSmall}

SmallProfiles ==
    [count : {Absent} \cup SmallInputs, containers : SmallInputs,
     containers_per_node : SmallInputs, hostname_prefix : PrefixInputs]

----------------------------------------------------------------------------
(* BuiltinConfig *)

NoConfig == [ok |-> FALSE, error |-> "AttributeError"]

ValueError(msg) == [ok |-> FALSE, error |-> msg]

\* variant: the count check is skipped when the container settings give the node count
BuiltinConfig_countSkipped(kw) ==
    LET c == int(Get(kw, "count", PyInt(1)))
        n == int(Get(kw, "containers", PyInt(0)))
        p == int(Get(kw, "containers_per_node", PyInt(0)))
        h == str(Get(kw, "hostname_prefix", PyStr(<<"n", "o", "d", "e">>)))
    IN  IF c < 1 /\ ~(n > 0 /\ p > 0) THEN ValueError("count must be >= 1")
        ELSE IF n < 0 THEN ValueError("containers must be >= 0")
        ELSE IF p < 0 THEN ValueError("containers_per_node must be >= 0")
        ELSE [ok |-> TRUE, count |-> c, containers |-> n,
              containers_per_node |-> p, hostname_prefix |-> h]

BuiltinConfig(kw) ==
    LET c == int(Get(kw, "count", PyInt(1)))
        n == int(Get(kw, "containers", PyInt(0)))
        p == int(Get(kw, "containers_per_node", PyInt(0)))
        h == str(Get(kw, "hostname_prefix", PyStr(<<"n", "o", "d", "e">>)))
    IN  IF c < 1 THEN ValueError("count must be >= 1")
        ELSE IF n < 0 THEN ValueError("containers must be >= 0")
        ELSE IF p < 0 THEN ValueError("containers_per_node must be >= 0")
        ELSE [ok |-> TRUE, count |-> c, containers |-> n,
              containers_per_node |-> p, hostname_prefix |-> h]

----------------------------------------------------------------------------
(* BuiltinV1 / BuiltinV2 *)

Classes == {"BuiltinV1", "BuiltinV2"}

NoProfile == [count |-> Absent, containers |-> Absent,
              containers_per_node |-> Absent, hostname_prefix |-> Absent]

\* variant: integer division, the partial node dropped
ceil_floor(a, b) == a \div b

\* variant: one node too many on an exact fit
ceil_plusOne(a, b) == (a \div b) + 1

\* math.ceil(a / b) for a > 0, b > 0 (the quotient is exact in this range)
ceil(a, b) == IF a % b = 0 THEN a \div b ELSE (a \div b) + 1

get_node_count(cfg) ==
    IF cfg.containers > 0 /\ cfg.containers_per_node > 0
    THEN ceil(cfg.containers, cfg.containers_per_node)
    ELSE cfg.count

\* variant: the last node is given a full share
get_container_count_noRemainder(cfg, index) ==
    IF cfg.containers > 0 /\ cfg.containers_per_node > 0
    THEN cfg.containers_per_node
    ELSE 0

get_container_count(cfg, index) ==
    IF cfg.containers > 0 /\ cfg.containers_per_node > 0
    THEN LET total == cfg.containers
             per_node == cfg.containers_per_node
             nodes == get_node_count(cfg)
         IN  IF index = nodes
             THEN total - ((nodes - 1) * per_node)
             ELSE per_node
    ELSE 0

\* f"{prefix}-{index}" (BuiltinV1), f"v2-{prefix}-{index}" (BuiltinV2):
\* the formatted string as its parts <<literal, prefix, "-", index>>
get_hostname(c, cfg, index) ==
    IF c = "BuiltinV2"
    THEN <<"v2-", cfg.hostname_prefix, "-", index>>
    ELSE <<"", cfg.hostname_prefix, "-", index>>

Call(op, arg, outcome, ret, logged) ==
    [op |-> op, arg |-> arg, outcome |-> outcome, ret |-> ret, logged |-> logged]

NoRet == <<>>

NoneApplied == [set |-> FALSE, profile |-> NoProfile, via |-> "", ran |-> {}]

\* variant: the stored config is dropped when the constructor raises
StoreConfig_clearOnFailure(op, profile, logs) ==
    LET new == BuiltinConfig(profile)
        ran == applied.ran \cup {op}
    IN  IF new.ok
        THEN /\ config' = new
             /\ applied' = [set |-> TRUE, profile |-> profile, via |-> op, ran |-> ran]
             /\ lastCall' = Call(op, 0, "ok", NoRet, logs)
        ELSE /\ config' = NoConfig
             /\ applied' = [applied EXCEPT !.ran = ran]
             /\ lastCall' = Call(op, 0, new.error, NoRet, FALSE)

\* self.config = BuiltinConfig(**profile): the assignment happens only when the
\* constructor returns
StoreConfig(op, profile, logs) ==
    LET new == BuiltinConfig(profile)
        ran == applied.ran \cup {op}
    IN  IF new.ok
        THEN /\ config' = new
             /\ applied' = [set |-> TRUE, profile |-> profile, via |-> op, ran |-> ran]
             /\ lastCall' = Call(op, 0, "ok", NoRet, logs)
        ELSE /\ UNCHANGED config
             /\ applied' = [applied EXCEPT !.ran = ran]
             /\ lastCall' = Call(op, 0, new.error, NoRet, FALSE)

\* BuiltinV1.pre_configure; BuiltinV2.pre_configure adds the INFO log line
pre_configure(profile) ==
    /\ StoreConfig("pre_configure", profile, cls = "BuiltinV2")
    /\ UNCHANGED <<cls, handed, regvars, discvars, wtvars>>

\* variant: a config already on the instance is kept
pre_post_start_keep(profile) ==
    /\ IF config.ok
       THEN /\ UNCHANGED config
            /\ applied' = [set |-> TRUE, profile |-> profile, via |-> "pre_post_start",
                            ran |-> applied.ran \cup {"pre_post_start"}]
            /\ lastCall' = Call("pre_post_start", 0, "ok", NoRet, FALSE)
       ELSE StoreConfig("pre_post_start", profile, FALSE)
    /\ UNCHANGED <<cls, handed, regvars, discvars, wtvars>>

pre_post_start(profile) ==
    /\ StoreConfig("pre_post_start", profile, FALSE)
    /\ UNCHANGED <<cls, handed, regvars, discvars, wtvars>>

\* a getter called on the instance: AttributeError while self.config is not set
Getter(op, arg, value) ==
    /\ lastCall' = IF config.ok
                   THEN Call(op, arg, "ok", <<value>>, FALSE)
                   ELSE Call(op, arg, "AttributeError", NoRet, FALSE)
    /\ UNCHANGED <<cls, config, applied, handed, regvars, discvars, wtvars>>

CallGetNodeCount == Getter("get_node_count", 0, get_node_count(config))

CallGetContainerCount(index) ==
    Getter("get_container_count", index, get_container_count(config, index))

CallGetHostname(index) ==
    Getter("get_hostname", index, get_hostname(cls, config, index))

\* cls(): a fresh instance, no config attribute
NewInstance(c) ==
    /\ cls' = c
    /\ config' = NoConfig
    /\ applied' = NoneApplied
    /\ lastCall' = Call("__init__", 0, "ok", NoRet, FALSE)
    /\ UNCHANGED <<handed, regvars, discvars, wtvars>>

----------------------------------------------------------------------------
(* PluginRegistry *)

\* version strings, as sequences of characters
VersionList ==
    << <<"1", ".", "0", ".", "0">>,
       <<"2", ".", "0", ".", "0">>,
       <<"1", "0", ".", "0", ".", "0">>,
       <<"2", ".", "0">>,
       <<"l", "a", "t", "e", "s", "t">> >>

latest == <<"l", "a", "t", "e", "s", "t">>

Versions == {VersionList[i] : i \in 1..MaxVersions}

Names == {"builtin", "wind"}

\* ord(c) of the characters that occur in version strings
ord(c) ==
    CASE c = "." -> 46
      [] c \in Digits -> 48 + DigitVal(c)
      [] c = "a" -> 97 [] c = "e" -> 101 [] c = "l" -> 108
      [] c = "s" -> 115 [] c = "t" -> 116

RECURSIVE StrLess_shortlex(_, _)
\* variant: shorter strings first, then character by character
StrLess_shortlex(a, b) ==
    IF Len(a) # Len(b) THEN Len(a) < Len(b)
    ELSE IF a = <<>> THEN FALSE
    ELSE IF Head(a) # Head(b) THEN ord(Head(a)) < ord(Head(b))
    ELSE StrLess_shortlex(Tail(a), Tail(b))

RECURSIVE StrLess(_, _)
\* a < b on Python strings: the first differing code point decides, a proper
\* prefix is smaller
StrLess(a, b) ==
    IF b = <<>> THEN FALSE
    ELSE IF a = <<>> THEN TRUE
    ELSE IF Head(a) # Head(b) THEN ord(Head(a)) < ord(Head(b))
    ELSE StrLess(Tail(a), Tail(b))

RECURSIVE sorted(_)
\* sorted(keys): ascending list of a set of strings
sorted(keys) ==
    IF keys = {} THEN <<>>
    ELSE LET least == CHOOSE v \in keys : \A w \in keys : w = v \/ StrLess(v, w)
         IN  <<least>> \o sorted(keys \ {least})

EmptyDict == <<>>

NotFound == "Plugin '{name}' not found."
VersionNotFound == "Plugin '{name}' version '{version}' not found."

RegCall(op, name, requested, version, outcome, instance) ==
    [op |-> op, name |-> name, requested |-> requested, version |-> version,
     outcome |-> outcome, instance |-> instance]

NoInstance == ""

\* the map after self._plugins[name][version] = cls
Inserted(reg, name, version, c) ==
    LET withName == IF name \notin DOMAIN reg THEN (name :> EmptyDict) @@ reg ELSE reg
    IN  [withName EXCEPT ![name] = (version :> c) @@ @]

Registered(name, version, c) ==
    [last |-> [hist.last EXCEPT ![name][version] = c],
     replaced |-> hist.replaced \/ hist.last[name][version] \notin {NoInstance, c}]

\* variant: the name's versions are reset on every registration
register_plugin_reset(name, version, c) ==
    /\ plugins' = (name :> (version :> c)) @@ plugins
    /\ hist' = Registered(name, version, c)
    /\ regCall' = RegCall("register_plugin", name, version, version, "ok", NoInstance)
    /\ UNCHANGED <<handed, instvars, discvars, wtvars>>

\* register_plugin(name, version)(cls)
register_plugin(name, version, c) ==
    /\ plugins' = Inserted(plugins, name, version, c)
    /\ hist' = Registered(name, version, c)
    /\ regCall' = RegCall("register_plugin", name, version, version, "ok", NoInstance)
    /\ UNCHANGED <<handed, instvars, discvars, wtvars>>

\* variant: a missing name is given an empty entry before the error is raised
get_plugin_insert(name, requested) ==
    /\ IF name \notin DOMAIN plugins
       THEN /\ plugins' = (name :> EmptyDict) @@ plugins
            /\ regCall' = RegCall("get_plugin", name, requested, requested,
                                   NotFound, NoInstance)
       ELSE /\ UNCHANGED plugins
            /\ LET versions == plugins[name]
                    version == IF requested = latest /\ DOMAIN versions # {}
                               THEN sorted(DOMAIN versions)[Len(sorted(DOMAIN versions))]
                               ELSE requested
               IN  regCall' = IF version \notin DOMAIN versions
                              THEN RegCall("get_plugin", name, requested, version,
                                           VersionNotFound, NoInstance)
                              ELSE RegCall("get_plugin", name, requested, version,
                                           "ok", versions[version])
    /\ UNCHANGED <<hist, handed, instvars, discvars, wtvars>>

\* variant: a resolved class is taken out of the map (versions.pop(version))
get_plugin_pop(name, requested) ==
    /\ IF name \notin DOMAIN plugins
       THEN /\ UNCHANGED plugins
            /\ regCall' = RegCall("get_plugin", name, requested, requested,
                                   NotFound, NoInstance)
       ELSE LET versions == plugins[name]
                version == IF requested = latest /\ DOMAIN versions # {}
                           THEN sorted(DOMAIN versions)[Len(sorted(DOMAIN versions))]
                           ELSE requested
            IN  IF version \notin DOMAIN versions
                THEN /\ UNCHANGED plugins
                     /\ regCall' = RegCall("get_plugin", name, requested, version,
                                            VersionNotFound, NoInstance)
                ELSE /\ plugins' = [plugins EXCEPT ![name] =
                                        [v \in DOMAIN versions \ {version} |-> versions[v]]]
                     /\ regCall' = RegCall("get_plugin", name, requested, version,
                                            "ok", versions[version])
    /\ UNCHANGED <<hist, handed, instvars, discvars, wtvars>>

\* get_plugin(name, version): the outcome is the class of the new instance, or
\* the ValueError raised
get_plugin(name, requested) ==
    /\ IF name \notin DOMAIN plugins
       THEN regCall' = RegCall("get_plugin", name, requested, requested,
                               NotFound, NoInstance)
       ELSE LET versions == plugins[name]
                version == IF requested = latest
                           THEN sorted(DOMAIN versions)[Len(sorted(DOMAIN versions))]
                           ELSE requested
            IN  regCall' = IF version \notin DOMAIN versions
                           THEN RegCall("get_plugin", name, requested, version,
                                        VersionNotFound, NoInstance)
                           ELSE RegCall("get_plugin", name, requested, version,
                                        "ok", versions[version])
    /\ UNCHANGED <<plugins, hist, handed, instvars, discvars, wtvars>>

----------------------------------------------------------------------------
(* Discovery *)

\* a profile's plugin reference: a bare name (no version, <<>>), or a mapping
\* {name, version}
BareRef(n) == [kind |-> "name", name |-> n, version |-> <<>>]
MappingRef(n, v) == [kind |-> "mapping", name |-> n, version |-> v]

Refs ==
    {BareRef(n) : n \in Names}
        \cup {MappingRef(n, VersionList[2]) : n \in Names}

RefLists == UNION {[1..k -> Refs] : k \in 1..MaxProfiles}

\* absence of a version implies "latest"
RefVersion(ref) == IF ref.version = <<>> THEN latest ELSE ref.version

\* what loading a source of a name does: the built-in module is missing
\* (ImportError) or loads; the entry point is missing or loads
Envs == [Names -> [module : {"ImportError", "ok"}, entry_point : {"missing", "ok"}]]

\* get_plugin(name, version) would return an instance
Resolves(reg, name, version) ==
    /\ name \in DOMAIN reg
    /\ version = latest \/ version \in DOMAIN reg[name]

\* the registrations made by loading the built-in module of a name: builtin.py
\* registers BuiltinV1 as 1.0.0 and BuiltinV2 as 2.0.0
ModuleRegistrations(name) ==
    IF name = "builtin"
    THEN << <<"builtin", VersionList[1], "BuiltinV1">>,
            <<"builtin", VersionList[2], "BuiltinV2">> >>
    ELSE << <<name, VersionList[1], "ModulePlugin">> >>

\* the registration made by loading the entry point of a name
EntryPointRegistrations(name) == << <<name, VersionList[1], "EntryPointPlugin">> >>

RECURSIVE RegisterAll(_, _)
\* the registry state <<map, history>> after the registrations of a loaded module
RegisterAll(st, regs) ==
    IF regs = <<>> THEN st
    ELSE LET r == Head(regs)
             h == st[2]
         IN  RegisterAll(
                 << Inserted(st[1], r[1], r[2], r[3]),
                    [last |-> [h.last EXCEPT ![r[1]][r[2]] = r[3]],
                     replaced |-> h.replaced
                                    \/ h.last[r[1]][r[2]] \notin {NoInstance, r[3]}] >>,
                 Tail(regs))

Load(source, result) == [source |-> source, result |-> result]

\* variant: an ImportError of the built-in module ends the discovery of the reference
DiscoverOne_noFallback(st, ref) ==
    LET name == ref.name
        version == RefVersion(ref)
        Attempt(resolved, loads) ==
            [name |-> name, version |-> version, resolved |-> resolved, loads |-> loads]
        mod == Load("builtin_module", env[name].module)
    IN  IF Resolves(st[1], name, version)
        THEN <<st, Attempt(TRUE, <<>>)>>
        ELSE IF mod.result = "ok"
        THEN <<RegisterAll(st, ModuleRegistrations(name)), Attempt(FALSE, <<mod>>)>>
        ELSE <<st, Attempt(FALSE, <<mod>>)>>

\* discovery of one reference from registry state st: <<st', attempt>>
DiscoverOne(st, ref) ==
    LET name == ref.name
        version == RefVersion(ref)
        Attempt(resolved, loads) ==
            [name |-> name, version |-> version, resolved |-> resolved, loads |-> loads]
        mod == Load("builtin_module", env[name].module)
        ep == Load("entry_point", env[name].entry_point)
    IN  IF Resolves(st[1], name, version)
        THEN <<st, Attempt(TRUE, <<>>)>>
        ELSE IF mod.result = "ok"
        THEN <<RegisterAll(st, ModuleRegistrations(name)), Attempt(FALSE, <<mod>>)>>
        ELSE IF ep.result = "ok"
        THEN <<RegisterAll(st, EntryPointRegistrations(name)), Attempt(FALSE, <<mod, ep>>)>>
        ELSE <<st, Attempt(FALSE, <<mod, ep>>)>>

RECURSIVE DiscoverAll(_, _, _)
\* the loop over the profiles' references, in order
DiscoverAll(st, refs, log) ==
    IF refs = <<>> THEN <<st, log>>
    ELSE LET one == DiscoverOne(st, Head(refs))
         IN  DiscoverAll(one[1], Tail(refs), Append(log, one[2]))

\* one discovery run over the references of the profiles
discover_plugins(refs) ==
    /\ LET run == DiscoverAll(<<plugins, hist>>, refs, <<>>)
       IN  /\ plugins' = run[1][1]
           /\ hist' = run[1][2]
           /\ attempts' = run[2]
    /\ discovered' = refs
    /\ regCall' = RegCall("_discover_plugins", "", <<>>, <<>>, "ok", NoInstance)
    /\ UNCHANGED <<env, handed, instvars, wtvars>>

----------------------------------------------------------------------------
(* Extended strategy: CIDR-derived addresses of the workload endpoints *)

\* workload roles per node
RolesPerNode == 6

RoleType(j) == IF j = 1 THEN "main-controller" ELSE "role"

\* an external network "a.b.c.d/prefix": its address octets and prefix length
Cidr(a, b, c, d, prefix) == [addr |-> <<a, b, c, d>>, prefix |-> prefix]

Networks ==
    {Cidr(192, 168, 50, d, p) : d \in {0, 1, 10, 252}, p \in {16, 24, 30}}
        \cup {Cidr(10, 0, 255, d, p) : d \in {0, 240, 250, 255}, p \in {16, 24, 28}}
        \cup {Cidr(172, 16, 0, d, p) : d \in {0, 128}, p \in {12, 25}}

Pow2(n) == IF n = 0 THEN 1 ELSE 2 ^ n

\* the address as the integers <<first octet, low 24 bits>>
AddrValue(addr) == <<addr[1], addr[2] * 65536 + addr[3] * 256 + addr[4]>>

\* the address of an integer pair, as octets (the carry of the low 24 bits
\* goes into the first octet)
AddrOctets(v) ==
    LET low == v[2] % 16777216
        first == v[1] + (v[2] \div 16777216)
    IN  <<first, low \div 65536, (low \div 256) % 256, low % 256>>

\* the host bits of the address under the prefix (prefix >= 8)
HostBits(net) == AddrValue(net.addr)[2] % Pow2(32 - net.prefix)

\* variant: addressing always starts one above the given address
StartAddress_alwaysNext(net) ==
    LET v == AddrValue(net.addr) IN <<v[1], v[2] + 1>>

\* the first address handed out: the first usable host when the CIDR names
\* the network itself, the given address otherwise
StartAddress(net) ==
    LET v == AddrValue(net.addr)
    IN  IF HostBits(net) = 0 THEN <<v[1], v[2] + 1>> ELSE v

\* the endpoint record of role j (1-based) on node index
ContainerDetail(net, index, j) ==
    LET start == StartAddress(net)
        offset == (index - 1) * RolesPerNode + (j - 1)
        ip == AddrOctets(<<start[1], start[2] + offset>>)
    IN  [type |-> RoleType(j), topology_ip |-> ip, ips |-> << <<ip, "/", net.prefix>> >>]

NoWtConfig == [ok |-> FALSE, count |-> 0, network |-> Cidr(0, 0, 0, 0, 0)]

NoDetails == [index |-> 0, list |-> <<>>]

\* WindTurbine.pre_configure with a profile of count nodes on the network
wt_pre_configure(count, net) ==
    /\ wtConfig' = [ok |-> TRUE, count |-> count, network |-> net]
    /\ details' = NoDetails
    /\ UNCHANGED <<handed, instvars, regvars, discvars>>

\* WindTurbine._get_container_details(index)
get_container_details(index) ==
    /\ wtConfig.ok
    /\ index \in 1..wtConfig.count
    /\ details' = [index |-> index,
                   list |-> [j \in 1..RolesPerNode |->
                                ContainerDetail(wtConfig.network, index, j)]]
    /\ UNCHANGED <<wtConfig, handed, instvars, regvars, discvars>>

----------------------------------------------------------------------------
(* Specifications *)

InitInst ==
    /\ cls = "BuiltinV1"
    /\ config = NoConfig
    /\ applied = NoneApplied
    /\ lastCall = Call("__init__", 0, "ok", NoRet, FALSE)

Getters(maxIndex) ==
    \/ CallGetNodeCount
    \/ \E i \in 0..maxIndex : CallGetContainerCount(i)
    \/ \E i \in 0..maxIndex : CallGetHostname(i)

\* PluginRegistry.__init__
InitRegistry ==
    /\ plugins = EmptyDict
    /\ regCall = RegCall("__init__", "", <<>>, <<>>, "ok", NoInstance)
    /\ hist = [last |-> [n \in Names |-> [v \in Versions |-> NoInstance]],
               replaced |-> FALSE]

NoEnv == [n \in Names |-> [module |-> "ImportError", entry_point |-> "missing"]]

InitWt ==
    /\ wtConfig = NoWtConfig
    /\ details = NoDetails

InitDiscovery ==
    /\ env = NoEnv
    /\ discovered = <<>>
    /\ attempts = <<>>
    /\ InitWt

\* one instance driven with any sequence of profiles
Init ==
    /\ handed = NoProfile
    /\ InitInst
    /\ InitRegistry
    /\ InitDiscovery

Next ==
    \/ \E c \in Classes : NewInstance(c)
    \/ \E p \in SmallProfiles : pre_configure(p)
    \/ \E p \in SmallProfiles : pre_post_start(p)
    \/ Getters(MaxSmall + 1)

Spec == Init /\ [][Next]_vars

\* one profile, handed to the instances created for it
InitProfile ==
    /\ handed \in Profiles
    /\ InitInst
    /\ InitRegistry
    /\ InitDiscovery

NextProfile ==
    \/ \E c \in Classes : NewInstance(c)
    \/ pre_configure(handed)
    \/ pre_post_start(handed)
    \/ Getters(MaxIndex)

SpecProfile == InitProfile /\ [][NextProfile]_vars

\* the registry under any sequence of registrations and resolutions
NextRegistry ==
    \/ \E n \in Names, v \in Versions, c \in Classes : register_plugin(n, v, c)
    \/ \E n \in Names, v \in Versions \cup {latest} : get_plugin(n, v)

SpecRegistry == Init /\ [][NextRegistry]_vars

\* discovery runs and resolutions, with the loadable sources fixed at start
InitEnv ==
    /\ handed = NoProfile
    /\ InitInst
    /\ InitRegistry
    /\ env \in Envs
    /\ discovered = <<>>
    /\ attempts = <<>>
    /\ InitWt

NextDiscovery ==
    \/ \E refs \in RefLists : discover_plugins(refs)
    \/ \E n \in Names, v \in Versions \cup {latest} : get_plugin(n, v)

SpecDiscovery == InitEnv /\ [][NextDiscovery]_vars

\* the extended strategy configured and asked for its endpoints
NextCidr ==
    \/ \E n \in 1..MaxNodes, net \in Networks : wt_pre_configure(n, net)
    \/ \E i \in 1..MaxNodes : get_container_details(i)

SpecCidr == Init /\ [][NextCidr]_vars

----------------------------------------------------------------------------
(* Properties of the builtin strategy *)

PartitionMode(cfg) == cfg.containers > 0 /\ cfg.containers_per_node > 0

RECURSIVE SumContainerCounts(_, _)
\* get_container_count(1) + ... + get_container_count(n)
SumContainerCounts(cfg, n) ==
    IF n <= 0 THEN 0
    ELSE get_container_count(cfg, n) + SumContainerCounts(cfg, n - 1)

\* C1: in workload-partition mode the container counts of the nodes
\* 1..get_node_count() add up to exactly `containers`.
C1_PartitionSum ==
    (config.ok /\ PartitionMode(config))
        => SumContainerCounts(config, get_node_count(config)) = config.containers

\* 5 containers at 2 per node: the third and last node was asked and holds 1
C1_Witness ==
    /\ config.ok /\ config.containers = 5 /\ config.containers_per_node = 2
    /\ lastCall.op = "get_container_count" /\ lastCall.arg = 3
    /\ lastCall.ret = <<1>>
    /\ applied.via = "pre_configure"

\* n is the least integer with n * b >= a
IsCeil(n, a, b) == (n - 1) * b < a /\ a <= n * b

\* C2: get_node_count() is ceil(containers / containers_per_node) when both
\* are positive, `count` otherwise (also when only one is positive), and is
\* always >= 1.
C2_NodeCount ==
    config.ok =>
        LET n == get_node_count(config)
        IN  /\ PartitionMode(config)
                => IsCeil(n, config.containers, config.containers_per_node)
            /\ ~PartitionMode(config) => n = config.count
            /\ n >= 1
            /\ (lastCall.op = "get_node_count" /\ lastCall.outcome = "ok")
                => lastCall.ret = <<n>>

\* 5 containers at 2 per node: get_node_count returned 3
C2_Witness ==
    /\ config.ok /\ config.containers = 5 /\ config.containers_per_node = 2
    /\ lastCall.op = "get_node_count" /\ lastCall.ret = <<3>>

\* C3: get_container_count(i) is 0 for every i outside partition mode; in
\* partition mode every index before the last returns containers_per_node
\* and the last returns containers - (node_count - 1) * containers_per_node,
\* which lies in 1..containers_per_node; so every result is within
\* 0..containers_per_node.
C3_ContainerCount ==
    config.ok =>
        LET n == get_node_count(config)
            per == config.containers_per_node
        IN  \A i \in 0..MaxIndex \cup 1..n :
                LET r == get_container_count(config, i)
                IN  /\ ~PartitionMode(config) => r = 0
                    /\ (PartitionMode(config) /\ 1 <= i /\ i < n) => r = per
                    /\ (PartitionMode(config) /\ i = n)
                        => /\ r = config.containers - (n - 1) * per
                           /\ 1 <= r /\ r <= per
                    /\ PartitionMode(config) => (0 <= r /\ r <= per)
                    /\ (/\ lastCall.op = "get_container_count"
                        /\ lastCall.outcome = "ok" /\ lastCall.arg = i)
                        => lastCall.ret = <<r>>

\* an exact fit: 4 containers at 2 per node, the last node (2) was asked and holds 2
C3_Witness ==
    /\ config.ok /\ config.containers = 4 /\ config.containers_per_node = 2
    /\ lastCall.op = "get_container_count" /\ lastCall.arg = 2
    /\ lastCall.ret = <<2>>

PreCalls == {"pre_configure", "pre_post_start"}

\* the value supplied under a key, or the default of an absent key
Supplied(key, default) ==
    IF handed[key] = Absent THEN default ELSE int(handed[key])

\* C4: construction of the config fails with a validation error exactly when
\* count < 1 or containers < 0 or containers_per_node < 0 (count is checked
\* in partition mode too); otherwise it stores the supplied values, absent
\* keys defaulting to count 1, containers 0, containers_per_node 0. count 0
\* fails, count 5 succeeds and stores 5.
C4_Validation ==
    lastCall.op \in PreCalls =>
        LET c == Supplied("count", 1)
            n == Supplied("containers", 0)
            p == Supplied("containers_per_node", 0)
            bad == c < 1 \/ n < 0 \/ p < 0
        IN  /\ bad <=> lastCall.outcome # "ok"
            /\ bad => /\ lastCall.outcome \in {"count must be >= 1",
                                                "containers must be >= 0",
                                                "containers_per_node must be >= 0"}
                      /\ ~config.ok
            /\ ~bad => /\ config.ok
                       /\ config.count = c
                       /\ config.containers = n
                       /\ config.containers_per_node = p
            /\ handed.count = PyInt(0) => ~config.ok
            /\ (/\ handed.count = PyInt(5) /\ handed.containers = Absent
                /\ handed.containers_per_node = Absent)
                => (config.ok /\ config.count = 5)

\* count 0 was rejected although containers 5 at 2 per node would fix the node count
C4_Witness ==
    /\ lastCall.op = "pre_configure"
    /\ handed.count = PyInt(0)
    /\ handed.containers = PyInt(5)
    /\ handed.containers_per_node = PyInt(2)
    /\ lastCall.outcome = "count must be >= 1"
    /\ ~config.ok

\* C8: pre_post_start works on an instance on which pre_configure never
\* ran; whichever of the two methods last stored a config, the config is
\* the one built from the most recent successfully applied profile, and
\* get_node_count, get_hostname and get_container_count answer from it.
C8_PhaseIndependent ==
    /\ lastCall.op \in PreCalls => lastCall.outcome # "AttributeError"
    /\ config.ok <=> applied.set
    /\ config.ok =>
        LET fresh == BuiltinConfig(applied.profile)
        IN  /\ config = fresh
            /\ (lastCall.outcome = "ok" /\ lastCall.op = "get_node_count")
                => lastCall.ret = <<get_node_count(fresh)>>
            /\ (lastCall.outcome = "ok" /\ lastCall.op = "get_container_count")
                => lastCall.ret = <<get_container_count(fresh, lastCall.arg)>>
            /\ (lastCall.outcome = "ok" /\ lastCall.op = "get_hostname")
                => lastCall.ret = <<get_hostname(cls, fresh, lastCall.arg)>>

\* pre_configure never ran on the instance, pre_post_start applied
\* {containers: 2, containers_per_node: 1}, and get_node_count returned 2
C8_Witness ==
    /\ applied.ran = {"pre_post_start"}
    /\ applied.via = "pre_post_start"
    /\ applied.profile.containers = PyInt(2)
    /\ applied.profile.containers_per_node = PyInt(1)
    /\ lastCall.op = "get_node_count"
    /\ lastCall.ret = <<2>>

----------------------------------------------------------------------------
(* Properties of the registry *)

V1_0_0 == VersionList[1]
V2_0_0 == VersionList[2]
V10_0_0 == VersionList[3]

Min(a, b) == IF a < b THEN a ELSE b

\* a comes strictly before b in lexicographic order of the characters' codes
LexBefore(a, b) ==
    \E k \in 1..(Min(Len(a), Len(b)) + 1) :
        /\ \A j \in 1..(k - 1) : a[j] = b[j]
        /\ \/ k = Len(a) + 1 /\ k <= Len(b)
           \/ k <= Len(a) /\ k <= Len(b) /\ ord(a[k]) < ord(b[k])

IsResolve == regCall.op = "get_plugin"

\* C5: resolving a registered name with version "latest" instantiates the
\* class stored under the lexicographically greatest registered version
\* string: with "10.0.0" and "2.0.0" registered (and nothing greater) that is
\* "2.0.0"; with "1.0.0" and "2.0.0" it is the 2.0.0 class.
C5_LatestIsLexGreatest ==
    (IsResolve /\ regCall.requested = latest /\ regCall.name \in DOMAIN plugins) =>
        LET versions == plugins[regCall.name]
        IN  /\ regCall.outcome = "ok"
            /\ regCall.version \in DOMAIN versions
            /\ \A w \in DOMAIN versions :
                    w = regCall.version \/ LexBefore(w, regCall.version)
            /\ regCall.instance = versions[regCall.version]
            /\ DOMAIN versions = {V10_0_0, V2_0_0} => regCall.version = V2_0_0
            /\ DOMAIN versions = {V1_0_0, V2_0_0}
                => regCall.instance = versions[V2_0_0]

\* 1.0.0, 2.0.0 and 10.0.0 are registered under "builtin"; latest resolved
\* to the class registered as 2.0.0
C5_Witness ==
    /\ IsResolve /\ regCall.requested = latest /\ regCall.name = "builtin"
    /\ "builtin" \in DOMAIN plugins
    /\ DOMAIN plugins["builtin"] = {V1_0_0, V2_0_0, V10_0_0}
    /\ plugins["builtin"][V1_0_0] = "BuiltinV1"
    /\ plugins["builtin"][V2_0_0] = "BuiltinV2"
    /\ plugins["builtin"][V10_0_0] = "BuiltinV1"
    /\ regCall.version = V2_0_0
    /\ regCall.instance = "BuiltinV2"

NeverRegistered(name) == \A v \in Versions : hist.last[name][v] = NoInstance

C6_Outcomes ==
    IsResolve =>
        /\ NeverRegistered(regCall.name) => regCall.outcome = NotFound
        /\ (/\ ~NeverRegistered(regCall.name)
            /\ regCall.requested # latest
            /\ hist.last[regCall.name][regCall.requested] = NoInstance)
            => regCall.outcome = VersionNotFound
        /\ regCall.outcome # "ok" => regCall.instance = NoInstance

C6_MapUnchanged ==
    (regCall'.op = "get_plugin" /\ regCall'.outcome # "ok") => plugins' = plugins

\* C6: resolve fails with "not found" for a name never registered, whatever
\* the version, and with "version not found" for a registered name without
\* the explicitly requested version; a failing resolve creates no instance
\* and leaves the name -> version -> class map as it was.
C6_ResolveErrors == []C6_Outcomes /\ [][C6_MapUnchanged]_vars

\* "wind" has only 1.0.0; resolving wind 2.0.0 failed with "version not found"
C6_Witness ==
    /\ IsResolve /\ regCall.name = "wind" /\ regCall.requested = V2_0_0
    /\ "wind" \in DOMAIN plugins /\ DOMAIN plugins["wind"] = {V1_0_0}
    /\ regCall.outcome = VersionNotFound
    /\ regCall.instance = NoInstance

\* C7: the map holds, for every (name, version), exactly the class of the
\* latest registration under that key (a registration touches no other
\* key and never fails), and resolving an explicit registered version
\* instantiates that class.
C7_LastRegistrationWins ==
    /\ \A n \in Names, v \in Versions :
          IF hist.last[n][v] = NoInstance
          THEN n \in DOMAIN plugins => v \notin DOMAIN plugins[n]
          ELSE /\ n \in DOMAIN plugins
               /\ v \in DOMAIN plugins[n]
               /\ plugins[n][v] = hist.last[n][v]
    /\ regCall.op = "register_plugin" => regCall.outcome = "ok"
    /\ (/\ IsResolve /\ regCall.requested # latest
        /\ hist.last[regCall.name][regCall.requested] # NoInstance)
        => /\ regCall.outcome = "ok"
           /\ regCall.instance = hist.last[regCall.name][regCall.requested]

\* ("builtin", "1.0.0") was registered again with another class while
\* ("builtin", "2.0.0") stayed; resolving 1.0.0 gave the later class
C7_Witness ==
    /\ hist.replaced
    /\ "builtin" \in DOMAIN plugins /\ "wind" \notin DOMAIN plugins
    /\ DOMAIN plugins["builtin"] = {V1_0_0, V2_0_0}
    /\ plugins["builtin"][V2_0_0] = "BuiltinV2"
    /\ IsResolve /\ regCall.name = "builtin" /\ regCall.requested = V1_0_0
    /\ regCall.instance = "BuiltinV2"

----------------------------------------------------------------------------
(* Properties of discovery *)

IsDiscovery == regCall.op = "_discover_plugins"

C9_Protocol ==
    /\ Len(attempts) = Len(discovered)
    /\ \A i \in 1..Len(attempts) :
          LET a == attempts[i]
          IN  /\ a.name = discovered[i].name
              /\ a.resolved => a.loads = <<>>
              /\ ~a.resolved =>
                    /\ Len(a.loads) \in {1, 2}
                    /\ a.loads[1].source = "builtin_module"
                    /\ a.loads[1].result # "ok" => Len(a.loads) = 2
                    /\ Len(a.loads) = 2 => a.loads[2].source = "entry_point"
              /\ (IsDiscovery /\ a.loads # <<>> /\ a.loads[Len(a.loads)].result = "ok")
                    => a.name \in DOMAIN plugins

C9_NoLoadWhenResolved ==
    (regCall'.op = "_discover_plugins" /\ attempts' # <<>>) =>
        /\ attempts'[1].resolved
              <=> Resolves(plugins, discovered'[1].name, RefVersion(discovered'[1]))
        /\ (\A i \in 1..Len(attempts') : attempts'[i].resolved) => plugins' = plugins

\* C9: a reference that already resolves is not loaded (a repeated run
\* changes nothing); otherwise the built-in module is loaded first and the
\* entry point is looked up only after it, each at most once; a failed
\* source does not stop the next source or the next profile.
C9_Discovery == []C9_Protocol /\ [][C9_NoLoadWhenResolved]_vars

\* "wind" then "builtin" (the references of the test): both sources of wind
\* failed, and the built-in module of builtin was still loaded
C9_Witness ==
    /\ IsDiscovery
    /\ discovered = <<BareRef("wind"), BareRef("builtin")>>
    /\ Len(attempts) = 2
    /\ attempts[1].loads = <<Load("builtin_module", "ImportError"),
                              Load("entry_point", "missing")>>
    /\ attempts[2].loads = <<Load("builtin_module", "ok")>>
    /\ "wind" \notin DOMAIN plugins
    /\ "builtin" \in DOMAIN plugins

----------------------------------------------------------------------------
(* Properties of the CIDR addressing *)

\* the number of host bits that fall into octet k (1..4) under a prefix
HostBitsIn(k, prefix) ==
    IF 8 * k - prefix <= 0 THEN 0
    ELSE IF 8 * k - prefix >= 8 THEN 8
    ELSE 8 * k - prefix

AllHostBitsZero(net) ==
    \A k \in 1..4 : net.addr[k] % Pow2(HostBitsIn(k, net.prefix)) = 0

\* the next address, octet by octet
NextAddr(o) ==
    IF o[4] < 255 THEN <<o[1], o[2], o[3], o[4] + 1>>
    ELSE IF o[3] < 255 THEN <<o[1], o[2], o[3] + 1, 0>>
    ELSE IF o[2] < 255 THEN <<o[1], o[2] + 1, 0, 0>>
    ELSE <<o[1] + 1, 0, 0, 0>>

RECURSIVE NthAfter(_, _)
NthAfter(o, n) == IF n = 0 THEN o ELSE NthAfter(NextAddr(o), n - 1)

\* C10: the first endpoint of node 1 gets the first usable host address when
\* the CIDR's host bits are zero and the given address otherwise; every
\* later node/role endpoint gets the next address in sequence; ips[0] is the
\* topology_ip followed by "/" and the prefix length.
C10_CidrAddressing ==
    details.index >= 1 =>
        LET net == wtConfig.network
            first == IF AllHostBitsZero(net) THEN NextAddr(net.addr) ELSE net.addr
        IN  /\ Len(details.list) = RolesPerNode
            /\ details.list[1].type = "main-controller"
            /\ \A j \in 1..RolesPerNode :
                  LET d == details.list[j]
                  IN  /\ d.topology_ip
                            = NthAfter(first, (details.index - 1) * RolesPerNode + j - 1)
                      /\ d.ips[1] = <<d.topology_ip, "/", net.prefix>>
            /\ (details.index = 1 /\ net = Cidr(192, 168, 50, 0, 24))
                  => details.list[1].ips[1] = << <<192, 168, 50, 1>>, "/", 24 >>
            /\ (details.index = 1 /\ net = Cidr(192, 168, 50, 10, 24))
                  => details.list[1].topology_ip = <<192, 168, 50, 10>>

\* 192.168.50.10/24: the main controller of node 1 has 192.168.50.10/24, the
\* last role of node 1 has 192.168.50.15
C10_Witness ==
    /\ details.index = 1
    /\ wtConfig.network = Cidr(192, 168, 50, 10, 24)
    /\ details.list[1].type = "main-controller"
    /\ details.list[1].topology_ip = <<192, 168, 50, 10>>
    /\ details.list[1].ips = << << <<192, 168, 50, 10>>, "/", 24 >> >>
    /\ details.list[RolesPerNode].topology_ip = <<192, 168, 50, 15>>

----------------------------------------------------------------------------
(* Invariants of the registry state *)

\* the registered (name, version) keys of a map
Keys(reg) ==
    {k \in Names \X Versions : k[1] \in DOMAIN reg /\ k[2] \in DOMAIN reg[k[1]]}

C11_State ==
    /\ \A n \in DOMAIN plugins : DOMAIN plugins[n] # {}
    /\ (IsResolve /\ regCall.requested = latest /\ regCall.name \in DOMAIN plugins)
          => (regCall.outcome = "ok" /\ regCall.instance # NoInstance)
    /\ (IsResolve /\ regCall.requested = latest) => regCall.outcome # VersionNotFound

C11_Step ==
    /\ Keys(plugins) \subseteq Keys(plugins')
    /\ regCall'.op = "get_plugin" => plugins' = plugins

\* C11: from the empty registry, under any interleaving of registrations and
\* resolutions, the set of registered (name, version) keys never shrinks, a
\* resolution never changes the map, and every name in the map has at least
\* one version, so resolving "latest" for a registered name succeeds and
\* never fails with "version not found".
C11_RegistryInvariant == []C11_State /\ [][C11_Step]_vars

\* "wind" has the single version 10.0.0 and "builtin" two versions; latest
\* of wind resolved to the class stored under 10.0.0
C11_Witness ==
    /\ IsResolve /\ regCall.requested = latest /\ regCall.name = "wind"
    /\ DOMAIN plugins = {"builtin", "wind"}
    /\ DOMAIN plugins["wind"] = {V10_0_0}
    /\ DOMAIN plugins["builtin"] = {V1_0_0, V2_0_0}
    /\ regCall.outcome = "ok"
    /\ regCall.version = V10_0_0
    /\ regCall.instance = plugins["wind"][V10_0_0]

----------------------------------------------------------------------------
(* Invariants of the config stored on a builtin strategy instance *)

C12_State ==
    config.ok => /\ config.count >= 1
                 /\ config.containers >= 0
                 /\ config.containers_per_node >= 0

C12_Step ==
    (lastCall'.op \in PreCalls /\ lastCall'.outcome # "ok") =>
        /\ config' = config
        /\ applied'.set = applied.set
        /\ applied'.profile = applied.profile

\* C12: under any sequence of pre_configure and pre_post_start calls on one
\* instance, a stored config has count >= 1, containers >= 0 and
\* containers_per_node >= 0; a call that fails validation leaves the stored
\* config (or its absence) as it was, so the getters keep answering from the
\* last valid profile.
C12_ConfigInvariant == []C12_State /\ [][C12_Step]_vars

\* pre_configure stored {containers: 2, containers_per_node: 1}; a later
\* pre_post_start with containers "-1" failed and the config is still there
C12_Witness ==
    /\ lastCall.op = "pre_post_start"
    /\ lastCall.outcome = "containers must be >= 0"
    /\ applied.via = "pre_configure"
    /\ config.ok
    /\ config = BuiltinConfig(applied.profile)
    /\ config.containers = 2 /\ config.containers_per_node = 1
    /\ get_node_count(config) = 2

====
